---- MODULE Spec2Model ----
(***************************************************************************)
(* Model of the PlentyMarkets document downloader:                         *)
(*   - PlentymarketsClient (src/plentymarkets_client/plentymarkets_client.py): *)
(*     session bootstrap, login, refresh, token cache, GET with retry;     *)
(*   - DocumentDownloadWorker.run (src/app.py): the per-type page loop.    *)
(* The server, the token cache file and the target directory are the       *)
(* environment: their answers are chosen nondeterministically.             *)
(***************************************************************************)
EXTENDS Integers, Sequences, FiniteSets, TLC

\* ---------------------------------------------------------------- bounds
\* Number of pages per document type for which the server holds data.
MaxPages == 2
\* Number of GET attempts of a download run the server answers with something
\* else than 200.
MaxFaults == 1

\* ------------------------------------------------------ program constants
InitialDelay == 5
Backoff == 20
MaxAttempts == 3
ExpiryMargin == 7200

None == "None"
NoExc == [type |-> "none", msg |-> <<>>]

\* ------------------------------------------------------------ environment
\* (created_at_from, created_at_to, batch_size) handed to the worker: no date
\* filter, or a date range.
NoFilter == [created_at_from |-> None, created_at_to |-> None, batch_size |-> 1000]
DateRange ==
    [created_at_from |-> "2024-01-01T00:00:00+00:00",
     created_at_to |-> "2024-01-31T23:59:59+00:00", batch_size |-> 0]

filename_prefix == "PlentyDocuments"

\* Response bodies of the download endpoint.
EmptyBytes == [kind |-> "bytes", entries |-> 0]
BadZip == [kind |-> "badzip", entries |-> 0]
UnsupportedZip == [kind |-> "unsupported", entries |-> 0]
Zip(n) == [kind |-> "zip", entries |-> n]
NoData == [kind |-> "none", entries |-> 0]

DataPayloads == { Zip(1), Zip(2) }
EndPayloads == { EmptyBytes, BadZip, Zip(0) }
\* What the server may answer with status 200 for page p of a type when it
\* holds n pages of data.
ServerPayloads(p, n) ==
    IF p <= n THEN DataPayloads \cup EndPayloads \cup {UnsupportedZip}
    ELSE EndPayloads

\* Bodies of a successful credential exchange.
TokenResponses ==
    { [access_token |-> "a1", refresh_token |-> "r1", expiresIn |-> 7210],
      [access_token |-> "a2", refresh_token |-> "r2", expiresIn |-> 86400] }

\* Outcome of writing the cache file .py_session.
CacheWriteOutcomes == {"ok", "open_fails", "dump_fails"}

\* Outcome of one credential exchange (login or refresh) and of the cache
\* write that follows a successful one.
ExchangeOutcomes ==
    { [kind |-> "ok", token |-> t, w |-> w, error |-> ""] :
        t \in TokenResponses, w \in CacheWriteOutcomes }
    \cup { [kind |-> "rejected", token |-> <<>>, w |-> "ok", error |-> "invalid_credentials"],
           [kind |-> "raise", token |-> <<>>, w |-> "ok", error |-> ""] }

\* Contents of .py_session when the client is constructed.
NoFile == [state |-> "missing", token |-> <<>>]
CorruptFile == [state |-> "corrupt", token |-> <<>>]
CachedExpiries == {-1, 0, 30}
InitialCaches ==
    { NoFile, CorruptFile,
      [state |-> "ok", token |-> [access_token |-> "a0", refresh_token |-> "r0"]],
      [state |-> "ok", token |-> [access_token |-> "a0", expires_at |-> 30]],
      [state |-> "ok", token |-> [refresh_token |-> "r0", expires_at |-> 30]] }
    \cup { [state |-> "ok",
            token |-> [access_token |-> "a0", refresh_token |-> "r0", expires_at |-> e]] :
           e \in CachedExpiries }

\* What download_documents reads for username and password from the settings
\* or the environment: nothing, an empty string, or a value.
EmptyValues == {None, ""}
Credentials ==
    [username : EmptyValues \cup {"user"}, password : EmptyValues \cup {"secret"}]
ValidCredentials == [username |-> "user", password |-> "secret"]

\* Outcome of writing a page to the target directory.
FileWriteOutcomes == {"ok", "open_fails", "write_fails"}
PartialFile == [kind |-> "partial", entries |-> 0]

ValidCache ==
    [state |-> "ok",
     token |-> [access_token |-> "a0", refresh_token |-> "r0", expires_at |-> 30]]

VARIABLES
    pc,                       \* position of DocumentDownloadWorker.run
    types,                    \* the selected document types, in order
    credentials,              \* the dict run builds from username and password
    serverPages,              \* pages of data the server holds per type
    faults,                   \* non-200 answers the server may still give
    config,                   \* created_at_from, created_at_to, batch_size
    plenty,                   \* TRUE once the client is constructed
    ti,                       \* index of doc_type in SelectedTypes
    page,
    data,                     \* result of the last get_documents_by_type
    attempt,                  \* completed iterations of the retry loop
    delay,
    req,                      \* endpoint and params of the current GET call
    trace,                    \* requests and waits of the current client call
    log,                      \* lines emitted on log_signal
    files,                    \* target directory: file name -> content
    cache,                    \* .py_session
    cache0,                   \* .py_session as found at construction
    py_api_token,
    py_api_refresh_token,
    py_api_token_expires_at,
    now,                      \* datetime.utcnow().timestamp()
    escaped,                  \* an exception left run()
    results                   \* what each get_documents_by_type call returned

vars == <<pc, types, credentials, serverPages, faults, config, plenty, ti, page, data, attempt, delay, req, trace, log,
          files, cache, cache0, py_api_token, py_api_refresh_token,
          py_api_token_expires_at, now, escaped, results>>

\* ------------------------------------------------------------ trace events
GetEv(r, tok, t, exp, status, body) ==
    [op |-> "GET", req |-> r, token |-> tok, at |-> t, expires_at |-> exp,
     status |-> status, body |-> body]
SleepEv(d) == [op |-> "sleep", secs |-> d]
RefreshEv(res) == [op |-> "refresh", result |-> res]
LoginEv(res) == [op |-> "login", result |-> res]

LogEv(ev, t, p, msg) == [ev |-> ev, doc_type |-> t, page |-> p, msg |-> msg]

\* ------------------------------------------------- PlentymarketsClient
\* The client's fields, the cache file and the trace, threaded through the
\* operations below.
Client ==
    [token |-> py_api_token, refresh_token |-> py_api_refresh_token,
     expires_at |-> py_api_token_expires_at, cache |-> cache, trace |-> trace]

\* The with-open/pickle.dump block of __save_token: open("wb") truncates.
CacheWrite(old, session, w) ==
    CASE w = "ok" -> [state |-> "ok", token |-> session]
      [] w = "open_fails" -> old
      [] OTHER -> CorruptFile

\* What .py_session can hold when the process dies inside the with-open block
\* of __save_token: the old file (before open), the truncated or partly
\* written file (after open, before the dump is flushed), or the new session.
KilledCaches(old, session) == {old, CorruptFile, [state |-> "ok", token |-> session]}

\* expires_at = utcnow + expiresIn - 2h
ExpiresAt(t, expiresIn) == t + expiresIn - ExpiryMargin

SaveToken(cs, token, w, t) ==
    LET expires_at == ExpiresAt(t, token.expiresIn)
    IN [cs EXCEPT !.expires_at = expires_at,
                  !.token = token.access_token,
                  !.refresh_token = token.refresh_token,
                  !.cache = CacheWrite(cs.cache,
                                       [access_token |-> token.access_token,
                                        refresh_token |-> token.refresh_token,
                                        expires_at |-> expires_at], w)]

\* __load_token returns True: the file unpickles to a dict with all three keys.
LoadTokenOk(c) ==
    /\ c.state = "ok"
    /\ \A k \in {"expires_at", "access_token", "refresh_token"} : k \in DOMAIN c.token

LoadToken(cs) ==
    IF LoadTokenOk(cs.cache)
    THEN [cs EXCEPT !.expires_at = cs.cache.token.expires_at,
                    !.token = cs.cache.token.access_token,
                    !.refresh_token = cs.cache.token.refresh_token]
    ELSE cs

\* __sanity_check_credentials: the exception it raises, if any. Only the
\* presence of the two keys is tested.
SanityCheckCredentials(c) ==
    IF "username" \notin DOMAIN c
    THEN [type |-> "ValueError", msg |-> <<"Missing username">>]
    ELSE IF "password" \notin DOMAIN c
    THEN [type |-> "ValueError", msg |-> <<"Missing API-Password">>]
    ELSE NoExc

\* What the server can answer to POST /rest/login: it issues tokens only for
\* a user name and password that are both given.
LoginOutcomes(c) ==
    IF c.username \in EmptyValues \/ c.password \in EmptyValues
    THEN { o \in ExchangeOutcomes : o.kind # "ok" }
    ELSE ExchangeOutcomes

\* __login: POST /rest/login; raises on a non-200 answer (and when the POST or
\* the decoding of its body fails).
Login(cs, o, t) ==
    LET c1 == [cs EXCEPT !.trace = Append(@, LoginEv(o.kind))]
    IN CASE o.kind = "ok" -> [cs |-> SaveToken(c1, o.token, o.w, t), exc |-> NoExc]
         [] o.kind = "rejected" ->
              [cs |-> c1,
               exc |-> [type |-> "RuntimeError", msg |-> <<"Login failed!", o.error>>]]
         [] OTHER -> [cs |-> c1, exc |-> [type |-> "ConnectionError", msg |-> <<>>]]

\* __refresh_login: POST /rest/login/refresh; False on a non-200 answer.
RefreshLogin(cs, o, t) ==
    LET c1 == [cs EXCEPT !.trace = Append(@, RefreshEv(o.kind))]
    IN CASE o.kind = "ok" ->
              [cs |-> SaveToken(c1, o.token, o.w, t), ret |-> TRUE, exc |-> NoExc]
         [] o.kind = "rejected" -> [cs |-> c1, ret |-> FALSE, exc |-> NoExc]
         [] OTHER ->
              [cs |-> c1, ret |-> FALSE,
               exc |-> [type |-> "ConnectionError", msg |-> <<>>]]

\* if not self.__refresh_login(): self.__login()
RefreshOrLogin(cs, ro, lo, t) ==
    LET r == RefreshLogin(cs, ro, t)
    IN IF r.exc # NoExc THEN [cs |-> r.cs, exc |-> r.exc]
       ELSE IF ~r.ret THEN Login(r.cs, lo, t)
       ELSE [cs |-> r.cs, exc |-> NoExc]

\* a bootstrap that takes a session for expired at the second of its expiry
SessionExpiredAtExpiry(t, expires_at) == t >= expires_at

\* datetime.utcnow().timestamp() > self.__py_api_token_expires_at
SessionExpired(t, expires_at) == t > expires_at

\* a bootstrap that tries a refresh whatever the cache holds
BootstrapRefreshFirst(cs, ro, lo, t) ==
    IF ~LoadTokenOk(cs.cache) THEN RefreshOrLogin(cs, ro, lo, t)
    ELSE LET c1 == LoadToken(cs)
         IN IF SessionExpired(t, c1.expires_at) THEN RefreshOrLogin(c1, ro, lo, t)
            ELSE [cs |-> c1, exc |-> NoExc]

\* __bootstrap
Bootstrap(cs, ro, lo, t) ==
    IF ~LoadTokenOk(cs.cache) THEN Login(cs, lo, t)
    ELSE LET c1 == LoadToken(cs)
         IN IF SessionExpired(t, c1.expires_at) THEN RefreshOrLogin(c1, ro, lo, t)
            ELSE [cs |-> c1, exc |-> NoExc]

\* params of get_documents_by_type and the endpoint of __build_endpoint. A
\* filter that is None and a batch size of 0 are falsy: the key is left out,
\* which the record shows as None and 0.
BuildRequest(doc_type, createdAtFrom, createdAtTo, batchSize, p) ==
    [type |-> doc_type,
     page |-> p,
     createdAtFrom |-> createdAtFrom,
     createdAtTo |-> createdAtTo,
     itemsPerPage |-> batchSize]

\* a GET primitive whose attempt body has no except clause
GetCatchesNothing(e) == FALSE

\* except Exception in __simple_get_request
GetCatches(e) == e.type \in {"RuntimeError", "ConnectionError", "OSError",
                             "NotImplementedError", "BadZipFile"}

\* ---------------------------------------------- DocumentDownloadWorker
\* a run without exception handlers
RunCatchesNothing(e) == FALSE

\* handlers that catch RuntimeError only
RunCatchesRuntimeErrorOnly(e) == e.type = "RuntimeError"

\* except Exception in run (both handlers)
RunCatches(e) == e.type \in {"RuntimeError", "ConnectionError", "OSError",
                             "NotImplementedError", "BadZipFile", "ValueError"}

\* What zipfile.ZipFile(io.BytesIO(zip_bytes)) raises.
ZipOpenError(d) ==
    CASE d.kind = "zip" -> "none"
      [] d.kind = "unsupported" -> "NotImplementedError"
      [] OTHER -> "BadZipFile"

\* __is_zip_empty: [ret, exc]
IsZipEmpty(d) ==
    LET e == ZipOpenError(d)
    IN CASE e = "none" -> [ret |-> d.entries = 0, exc |-> NoExc]
         [] e = "BadZipFile" -> [ret |-> TRUE, exc |-> NoExc]
         [] OTHER -> [ret |-> FALSE, exc |-> [type |-> e, msg |-> <<>>]]

\* Truth value of the payload in "if data and ...": None and b"" are falsy.
Truthy(d) == d.kind \notin {"none", "bytes"}

\* a file name that leaves the page number out
FileNameWithoutPage(prefix, doc_type, p) == <<prefix, doc_type, 1, "zip">>

\* os.path.join(target_dir, f"{filename_prefix}_{doc_type}-{page}.zip")
FileName(prefix, doc_type, p) == <<prefix, doc_type, p, "zip">>

\* a loop variable bound to the last selected type in every iteration
LastDocType == types[Len(types)]

\* for doc_type in self.doc_types
doc_type == types[ti]

\* a retry loop that runs once too often
AttemptsLeftOffByOne(a) == a < MaxAttempts

\* range(3): another iteration follows the one entered after a completed ones
AttemptsLeft(a) == a + 1 < MaxAttempts

\* a delay that grows by the initial delay instead of the backoff
NextDelayByInitial(d) == d + InitialDelay

\* delay += backoff
NextDelay(d) == d + Backoff

\* a client that waits on a rate limit only
SleepsOnRateLimitOnly(status) == status = 429

\* a client that waits after a 401 only
SleepsOnUnauthorizedOnly(status) == status = 401

\* the statuses after which __simple_get_request calls time.sleep(delay)
SleepsOn(status) == status \in {401, 429}

\* a page counter that skips a page
NextPageSkips(p) == p + 2

\* page += 1
NextPage(p) == p + 1

OtherStatuses == {500}
\* the status recorded for a request that raised instead of being answered
NoResponse == 0

\* The state when run is entered, for a given environment.
Start ==
    /\ pc = "start"
    /\ plenty = FALSE
    /\ ti = 1
    /\ page = 1
    /\ data = NoData
    /\ attempt = 0
    /\ delay = InitialDelay
    /\ req = BuildRequest(None, None, None, 0, 1)
    /\ trace = <<>>
    /\ log = <<>>
    /\ files = <<>>
    /\ cache0 = cache
    /\ py_api_token = None
    /\ py_api_refresh_token = None
    /\ py_api_token_expires_at = None
    /\ now = 0
    /\ escaped = FALSE
    /\ results = <<>>

\* A download run of two document types against a server that answers at
\* most MaxFaults attempts with a failure.
Init ==
    /\ credentials = ValidCredentials
    /\ types = <<"invoice", "creditNote">>
    /\ config = NoFilter
    /\ cache = ValidCache
    /\ serverPages = MaxPages
    /\ faults = MaxFaults
    /\ Start

\* A download run of one document type with one page of data, with any cache
\* and a server that may fail every attempt of a call.
InitClient ==
    /\ credentials = ValidCredentials
    /\ types = <<"invoice">>
    /\ config = DateRange
    /\ cache \in InitialCaches
    /\ serverPages = 1
    /\ faults = MaxAttempts
    /\ Start

\* A download run of two document types with one page of data each, against a
\* server that may fail every attempt of a call.
InitRetry ==
    /\ credentials = ValidCredentials
    /\ types = <<"invoice", "creditNote">>
    /\ config = NoFilter
    /\ cache = ValidCache
    /\ serverPages = 1
    /\ faults = MaxAttempts
    /\ Start

\* A download run of two document types with one page of data each, started
\* with or without a cached session.
InitLive ==
    /\ credentials = ValidCredentials
    /\ types = <<"invoice", "creditNote">>
    /\ config = NoFilter
    /\ cache \in {ValidCache, NoFile}
    /\ serverPages = 1
    /\ faults = MaxFaults
    /\ Start

\* A download run of one document type, started with no cached session, a
\* valid one or an expired one.
InitCrash ==
    /\ credentials = ValidCredentials
    /\ types = <<"invoice">>
    /\ config = NoFilter
    /\ cache \in {NoFile, ValidCache,
                  [state |-> "ok",
                   token |-> [access_token |-> "a0", refresh_token |-> "r0",
                              expires_at |-> -1]]}
    /\ serverPages = 1
    /\ faults = MaxFaults
    /\ Start

\* A download run of one document type with any username and password the
\* settings can yield, started with or without a cached session.
InitCreds ==
    /\ credentials \in Credentials
    /\ types = <<"invoice">>
    /\ config = NoFilter
    /\ cache \in {NoFile, ValidCache}
    /\ serverPages = 1
    /\ faults = MaxFaults
    /\ Start

SetClient(cs) ==
    /\ py_api_token' = cs.token
    /\ py_api_refresh_token' = cs.refresh_token
    /\ py_api_token_expires_at' = cs.expires_at
    /\ cache' = cs.cache
    /\ trace' = cs.trace

\* plenty.get_documents_by_type(doc_type, ..., page = p) is entered
BeginCall(t, p) ==
    /\ req' = BuildRequest(t, config.created_at_from, config.created_at_to,
                           config.batch_size, p)
    /\ attempt' = 0
    /\ delay' = InitialDelay

\* a loop exit that leaves the for loop as well
NextTypeEndsRun ==
    /\ ti' = ti + 1
    /\ pc' = "finished"

\* the for loop of run moves on to the next selected type
NextType ==
    /\ ti' = ti + 1
    /\ pc' = IF ti + 1 > Len(types) THEN "finished" ELSE "type"

\* run, lines 49-57: PlentymarketsClient(base_url, credentials)
Construct ==
    /\ pc = "start"
    /\ \E ro \in ExchangeOutcomes, lo \in LoginOutcomes(credentials) :
         LET b == IF SanityCheckCredentials(credentials) # NoExc
                  THEN [cs |-> Client, exc |-> SanityCheckCredentials(credentials)]
                  ELSE Bootstrap(Client, ro, lo, now)
         IN /\ SetClient(b.cs)
            /\ IF b.exc = NoExc
               THEN /\ plenty' = TRUE
                    /\ pc' = IF Len(types) = 0 THEN "finished" ELSE "type"
                    /\ UNCHANGED <<log, escaped>>
               ELSE IF RunCatches(b.exc)
               THEN /\ log' = Append(log, LogEv("connect_failed", None, 0, b.exc.msg))
                    /\ pc' = "finished"
                    /\ UNCHANGED <<plenty, escaped>>
               ELSE /\ escaped' = TRUE
                    /\ pc' = "crashed"
                    /\ UNCHANGED <<plenty, log>>
    /\ UNCHANGED <<results, types, credentials, serverPages, faults, config, ti, page, data, attempt, delay, req, files, cache0, now>>

\* run, lines 58-62: the head of the for loop
StartType ==
    /\ pc = "type"
    /\ log' = Append(log, LogEv("started", doc_type, 0, <<>>))
    /\ page' = 1
    /\ BeginCall(doc_type, 1)
    /\ trace' = <<>>
    /\ pc' = "get"
    /\ UNCHANGED <<results, types, credentials, serverPages, faults, config, plenty, ti, data, files, cache, cache0, py_api_token,
                   py_api_refresh_token, py_api_token_expires_at, now, escaped>>

\* an exception reaches the handler of the while loop of run (lines 91-94)
Raise(e, lg) ==
    IF RunCatches(e)
    THEN /\ log' = lg \o <<LogEv("error", doc_type, page, e.msg),
                           LogEv("abort", doc_type, page, <<>>)>>
         /\ NextType
         /\ UNCHANGED escaped
    ELSE /\ escaped' = TRUE
         /\ pc' = "crashed"
         /\ log' = lg
         /\ UNCHANGED ti

\* the end of one iteration of the retry loop that did not return
\* a GET primitive that raises to its caller once the attempts are used up
EndAttemptRaises ==
    /\ delay' = NextDelay(delay)
    /\ attempt' = attempt + 1
    /\ IF AttemptsLeft(attempt)
       THEN /\ pc' = "get"
            /\ UNCHANGED <<data, results, ti, log, escaped>>
       ELSE /\ data' = NoData
            /\ results' = Append(results, [type |-> req.type, page |-> req.page,
                                           data |-> NoData])
            /\ Raise([type |-> "RuntimeError", msg |-> <<>>], log)

EndAttempt ==
    /\ delay' = NextDelay(delay)
    /\ attempt' = attempt + 1
    /\ IF AttemptsLeft(attempt)
       THEN /\ pc' = "get"
            /\ UNCHANGED <<data, results>>
       ELSE /\ pc' = "handle"
            /\ data' = NoData
            /\ results' = Append(results, [type |-> req.type, page |-> req.page,
                                           data |-> NoData])
    /\ UNCHANGED <<ti, log, escaped>>

\* requests.get(endpoint, params=params, headers=self.__generate_header())
\* a GET primitive that builds its header once, before the retry loop
RequestWithFirstHeader(status) ==
    LET g == { i \in 1..Len(trace) : trace[i].op = "GET" }
        f == CHOOSE i \in g : \A k \in g : i <= k
    IN IF g = {}
       THEN GetEv(req, py_api_token, now, py_api_token_expires_at, status, NoData)
       ELSE GetEv(req, trace[f].token, now, trace[f].expires_at, status, NoData)

Request(status) ==
    GetEv(req, py_api_token, now, py_api_token_expires_at, status, NoData)
Request200(body) ==
    GetEv(req, py_api_token, now, py_api_token_expires_at, 200, body)

\* __simple_get_request: an attempt answered 200
Get200 ==
    /\ pc = "get"
    /\ \E body \in ServerPayloads(req.page, serverPages) :
         /\ trace' = Append(trace, Request200(body))
         /\ data' = body
         /\ results' = Append(results, [type |-> req.type, page |-> req.page,
                                        data |-> body])
         /\ pc' = "handle"
    /\ UNCHANGED <<types, credentials, serverPages, config, plenty, ti, page, attempt, delay, req, log, files, cache,
                   cache0, py_api_token, py_api_refresh_token,
                   py_api_token_expires_at, now, escaped, faults>>

\* __simple_get_request: an attempt answered 401
Get401 ==
    /\ pc = "get"
    /\ faults > 0
    /\ faults' = faults - 1
    /\ \E ro \in ExchangeOutcomes, lo \in LoginOutcomes(credentials) :
         LET t == IF SleepsOn(401) THEN now + delay ELSE now
             c0 == [Client EXCEPT !.trace =
                        IF SleepsOn(401)
                        THEN trace \o <<Request(401), SleepEv(delay)>>
                        ELSE Append(trace, Request(401))]
             r == RefreshOrLogin(c0, ro, lo, t)
         IN /\ SetClient(r.cs)
            /\ now' = t
            /\ IF r.exc = NoExc \/ GetCatches(r.exc)
               THEN EndAttempt
               ELSE /\ Raise(r.exc, log)
                    /\ UNCHANGED <<data, results, attempt, delay>>
    /\ UNCHANGED <<types, credentials, serverPages, config, plenty, page, req, files, cache0>>

\* __simple_get_request: an attempt answered 429
Get429 ==
    /\ pc = "get"
    /\ faults > 0
    /\ faults' = faults - 1
    /\ trace' = IF SleepsOn(429)
                THEN trace \o <<Request(429), SleepEv(delay)>>
                ELSE Append(trace, Request(429))
    /\ now' = IF SleepsOn(429) THEN now + delay ELSE now
    /\ EndAttempt
    /\ UNCHANGED <<types, credentials, serverPages, config, plenty, page, req, files, cache, cache0, py_api_token,
                   py_api_refresh_token, py_api_token_expires_at>>

\* __simple_get_request: an attempt answered with any other status
GetOther ==
    /\ pc = "get"
    /\ faults > 0
    /\ faults' = faults - 1
    /\ \E s \in OtherStatuses :
         /\ trace' = IF SleepsOn(s)
                     THEN trace \o <<Request(s), SleepEv(delay)>>
                     ELSE Append(trace, Request(s))
         /\ now' = IF SleepsOn(s) THEN now + delay ELSE now
    /\ EndAttempt
    /\ UNCHANGED <<types, credentials, serverPages, config, plenty, page, req, files, cache, cache0, py_api_token,
                   py_api_refresh_token, py_api_token_expires_at>>

\* __simple_get_request: requests.get raises
GetException ==
    /\ pc = "get"
    /\ faults > 0
    /\ faults' = faults - 1
    /\ trace' = Append(trace, Request(NoResponse))
    /\ IF GetCatches([type |-> "ConnectionError", msg |-> <<>>])
       THEN EndAttempt
       ELSE /\ Raise([type |-> "ConnectionError", msg |-> <<>>], log)
            /\ UNCHANGED <<data, results, attempt, delay>>
    /\ UNCHANGED <<types, credentials, serverPages, config, plenty, page, req, files, cache, cache0, py_api_token,
                   py_api_refresh_token, py_api_token_expires_at, now>>

\* "if data and not self.__is_zip_empty(data)" holds
HasData(d) == Truthy(d) /\ IsZipEmpty(d).exc = NoExc /\ ~IsZipEmpty(d).ret

\* run, lines 79-85: the page is written and the loop goes on
StorePage ==
    /\ pc = "handle"
    /\ HasData(data)
    /\ files' = [f \in DOMAIN files \cup {FileName(filename_prefix, doc_type, page)} |->
                    IF f = FileName(filename_prefix, doc_type, page) THEN data
                    ELSE files[f]]
    /\ log' = Append(log, LogEv("batch", doc_type, page, <<>>))
    /\ page' = NextPage(page)
    /\ BeginCall(doc_type, NextPage(page))
    /\ trace' = <<>>
    /\ pc' = "get"
    /\ UNCHANGED <<results, types, credentials, serverPages, faults, config, plenty, ti, data, cache, cache0, py_api_token,
                   py_api_refresh_token, py_api_token_expires_at, now, escaped>>

\* run, lines 81-82 raise: open or write fails
StoreFails ==
    /\ pc = "handle"
    /\ HasData(data)
    /\ \E w \in FileWriteOutcomes \ {"ok"} :
         files' = IF w = "open_fails" THEN files
                  ELSE [f \in DOMAIN files \cup {FileName(filename_prefix, doc_type, page)} |->
                           IF f = FileName(filename_prefix, doc_type, page)
                           THEN PartialFile ELSE files[f]]
    /\ Raise([type |-> "OSError", msg |-> <<>>], log)
    /\ UNCHANGED <<results, types, credentials, serverPages, faults, config, plenty, page, data, attempt, delay, req, trace, cache,
                   cache0, py_api_token, py_api_refresh_token,
                   py_api_token_expires_at, now>>

\* run, line 80 raises: the archive check fails with something else than
\* BadZipFile
ArchiveCheckRaises ==
    /\ pc = "handle"
    /\ Truthy(data)
    /\ IsZipEmpty(data).exc # NoExc
    /\ Raise(IsZipEmpty(data).exc, log)
    /\ UNCHANGED <<results, types, credentials, serverPages, faults, config, plenty, page, data, attempt, delay, req, trace, files,
                   cache, cache0, py_api_token, py_api_refresh_token,
                   py_api_token_expires_at, now>>

\* run, lines 86-88: no data, the loop of this type ends
PageEmpty ==
    /\ pc = "handle"
    /\ ~Truthy(data) \/ (IsZipEmpty(data).exc = NoExc /\ IsZipEmpty(data).ret)
    /\ log' = Append(log, LogEv("done", doc_type, page, <<>>))
    /\ NextType
    /\ UNCHANGED <<results, types, credentials, serverPages, faults, config, plenty, page, data, attempt, delay, req, trace, files,
                   cache, cache0, py_api_token, py_api_refresh_token,
                   py_api_token_expires_at, now, escaped>>

\* The process is killed while __save_token writes .py_session, after a
\* successful login or refresh in __bootstrap or in the 401 handling.
KilledInCacheWrite ==
    /\ pc \in {"start", "get"}
    /\ pc = "get" => faults > 0
    /\ \E ro \in ExchangeOutcomes, lo \in LoginOutcomes(credentials) :
         LET c0 == IF pc = "start" THEN Client
                   ELSE [Client EXCEPT !.trace = trace \o <<Request(401), SleepEv(delay)>>]
             t == IF pc = "start" THEN now ELSE now + delay
             r == IF pc = "start" THEN Bootstrap(c0, ro, lo, t)
                  ELSE RefreshOrLogin(c0, ro, lo, t)
         IN /\ r.exc = NoExc
            /\ Len(r.cs.trace) > Len(c0.trace)
            /\ r.cs.trace[Len(r.cs.trace)].result = "ok"
            /\ py_api_token' = r.cs.token
            /\ py_api_refresh_token' = r.cs.refresh_token
            /\ py_api_token_expires_at' = r.cs.expires_at
            /\ trace' = r.cs.trace
            /\ now' = t
            /\ cache' \in KilledCaches(cache, [access_token |-> r.cs.token,
                                               refresh_token |-> r.cs.refresh_token,
                                               expires_at |-> r.cs.expires_at])
    /\ pc' = "killed"
    /\ faults' = IF pc = "get" THEN faults - 1 ELSE faults
    /\ UNCHANGED <<results, types, credentials, serverPages, config, plenty, ti, page, data, attempt, delay,
                   req, log, files, cache0, escaped>>

Next ==
    \/ Construct
    \/ StartType
    \/ Get200
    \/ Get401
    \/ Get429
    \/ GetOther
    \/ GetException
    \/ StorePage
    \/ StoreFails
    \/ ArchiveCheckRaises
    \/ PageEmpty

Spec == Init /\ [][Next]_vars
SpecClient == InitClient /\ [][Next]_vars
SpecTypes == InitLive /\ [][Next]_vars
SpecRetry == InitRetry /\ [][Next]_vars
SpecCreds == InitCreds /\ [][Next]_vars
\* The run, with a process that may be killed while it writes the cache.
NextCrash == Next \/ KilledInCacheWrite
SpecCrash == InitCrash /\ [][NextCrash]_vars
\* The worker thread keeps running and every HTTP call and file operation
\* returns: a step that is possible is eventually taken.
SpecLive == InitLive /\ [][Next]_vars /\ WF_vars(Next)

\* ------------------------------------------------------------------ claims
TypeResults(T) == SelectSeq(results, LAMBDA r : r.type = T)
TypeLog(T) == SelectSeq(log, LAMBDA e : e.doc_type = T)
TypeFiles(T) == { f \in DOMAIN files : f[2] = T }

\* C1: for every selected document type the pages requested through
\* get_documents_by_type are 1, 2, 3, ... with no gap and no repetition, and
\* the loop of the type ends at the first page whose payload has zero archived
\* entries: no page after it is requested.
C1_PagesContiguous ==
    /\ \A j \in 1..Len(results) :
         /\ results[j].page =
              1 + Cardinality({ i \in 1..(j - 1) : results[i].type = results[j].type })
         /\ results[j].data.entries = 0 =>
              /\ \A k \in (j + 1)..Len(results) : results[k].type # results[j].type
              /\ pc = "get" => req.type # results[j].type
    /\ pc = "get" =>
         req.page = 1 + Cardinality({ i \in 1..Len(results) : results[i].type = req.type })

\* C1 witness: the first type was fetched on pages 1, 2, 3, the third page was
\* an archive without entries, and the run went on to the next type.
C1_Witness ==
    /\ ti > 1
    /\ Len(TypeResults(types[1])) = 3
    /\ TypeResults(types[1])[2].data \in DataPayloads
    /\ TypeResults(types[1])[3].data = Zip(0)

\* C2: when pages 1..N of a type T were answered with non-empty archives and
\* page N+1 with an empty one, exactly the N files {prefix}_T-1.zip ..
\* {prefix}_T-N.zip exist for T, each holds the payload of its page, the last
\* log line of T is the "done" event, and no page beyond N+1 was requested.
C2_FilesOfAType ==
    \A i \in 1..Len(types) :
        LET T == types[i]
            R == TypeResults(T)
            N == Len(R) - 1
        IN (/\ ti > i
            /\ Len(R) >= 1
            /\ R[Len(R)].data = Zip(0)
            /\ \A k \in 1..N : R[k].data \in DataPayloads)
           => /\ TypeFiles(T) = { FileName(filename_prefix, T, k) : k \in 1..N }
              /\ \A k \in 1..N : files[FileName(filename_prefix, T, k)] = R[k].data
              /\ TypeLog(T)[Len(TypeLog(T))] = LogEv("done", T, N + 1, <<>>)
              /\ Cardinality({ l \in 1..Len(log) : log[l].ev = "done" /\ log[l].doc_type = T }) = 1
              /\ \A k \in 1..Len(R) : R[k].page <= N + 1

\* C2 witness: the spec's scenario, two pages of data and an empty third page
\* for "invoice", with two different payloads.
C2_Witness ==
    /\ ti > 1
    /\ types[1] = "invoice"
    /\ Len(TypeResults("invoice")) = 3
    /\ TypeResults("invoice")[1].data = Zip(1)
    /\ TypeResults("invoice")[2].data = Zip(2)
    /\ TypeResults("invoice")[3].data = Zip(0)
    /\ Cardinality(TypeFiles("invoice")) = 2

\* The GET requests of the current call, as positions of the trace.
GetIdx == { i \in 1..Len(trace) : trace[i].op = "GET" }
Idx401 == { i \in GetIdx : trace[i].status = 401 }
\* The number of the attempt that issued the request at position i.
AttemptNo(i) == Cardinality({ j \in GetIdx : j <= i })
\* The delay of the k-th attempt.
DelayOf(k) == <<5, 25, 45>>[k]
\* The request at position i is followed by a wait of the attempt's delay and
\* by one refresh, and by one login exactly if the refresh returned False.
WaitAndReauth(i) ==
    /\ i + 2 <= Len(trace)
    /\ trace[i + 1] = SleepEv(DelayOf(AttemptNo(i)))
    /\ trace[i + 2].op = "refresh"
    /\ IF trace[i + 2].result = "rejected"
       THEN /\ i + 3 <= Len(trace)
            /\ trace[i + 3].op = "login"
            /\ i + 4 <= Len(trace) => trace[i + 4].op = "GET"
       ELSE i + 3 <= Len(trace) => trace[i + 3].op = "GET"
\* The position of the last event of the re-authentication after position i.
ReauthEnd(i) == IF trace[i + 2].result = "rejected" THEN i + 3 ELSE i + 2
\* The request at position i is issued again, unchanged, or is about to be.
Retried(i) ==
    IF ReauthEnd(i) < Len(trace)
    THEN /\ trace[ReauthEnd(i) + 1].op = "GET"
         /\ trace[ReauthEnd(i) + 1].req = trace[i].req
    ELSE pc = "get" /\ req = trace[i].req

\* C3 as claimed: every 401, on whichever attempt, is followed by a wait, one
\* re-authentication and a retry of the identical request.
C3_Every401Retried ==
    \A i \in Idx401 : WaitAndReauth(i) /\ Retried(i)

\* C3 as amended: every 401 is followed by a wait of the current delay and
\* one re-authentication (one refresh, and one login exactly if the refresh
\* returned False); the identical request is retried if the 401 answered the
\* first or second attempt, and after a 401 on the third attempt no request
\* follows and the call returns None.
C3_401RetriedWhileAttemptsLeft ==
    \A i \in Idx401 :
        /\ WaitAndReauth(i)
        /\ IF AttemptNo(i) < MaxAttempts THEN Retried(i)
           ELSE /\ ReauthEnd(i) = Len(trace)
                /\ pc # "get"
                /\ data = NoData

\* C3 witness: a 401 on the first attempt, a refused refresh, a login, and the
\* same request sent again and answered.
C3_Witness ==
    /\ Len(trace) = 5
    /\ trace[1].op = "GET" /\ trace[1].status = 401
    /\ trace[3] = RefreshEv("rejected")
    /\ trace[4] = LoginEv("ok")
    /\ trace[5].op = "GET" /\ trace[5].status = 200 /\ trace[5].req = trace[1].req
    /\ trace[1].req.createdAtFrom # None

\* The call has just returned after three attempts, none answered 200.
ThreeFailures ==
    /\ pc = "handle"
    /\ Cardinality(GetIdx) = MaxAttempts
    /\ \A i \in GetIdx : trace[i].status # 200
\* The waits of the current call, in order.
Sleeps == SelectSeq(trace, LAMBDA e : e.op = "sleep")

\* C4 as claimed: after three non-200 answers of any kind the client has
\* waited 5, 25 and 45 and the call returns None.
C4_WaitsAfterEveryFailure ==
    ThreeFailures =>
        /\ Sleeps = <<SleepEv(5), SleepEv(25), SleepEv(45)>>
        /\ data = NoData

\* C4 as amended: over three non-200 answers the delay is 5, 25, 45 for
\* attempts 1, 2, 3 whatever the failure kind, but the client waits that delay
\* only after a 401 or a 429; after any other status or a network exception it
\* goes on without waiting. Then the call returns None.
C4_WaitsAfter401And429 ==
    ThreeFailures =>
        /\ \A i \in GetIdx :
             IF trace[i].status \in {401, 429}
             THEN i < Len(trace) /\ trace[i + 1] = SleepEv(DelayOf(AttemptNo(i)))
             ELSE i < Len(trace) => trace[i + 1].op = "GET"
        /\ Len(Sleeps) = Cardinality({ i \in GetIdx : trace[i].status \in {401, 429} })
        /\ data = NoData

\* C4 witness: a 500, a 429 and a 401 in a row: the waits are 25 and 45.
C4_Witness ==
    /\ ThreeFailures
    /\ trace[1].status = 500
    /\ trace[2].status = 429
    /\ Sleeps = <<SleepEv(25), SleepEv(45)>>

\* C5: one call of get_documents_by_type issues at most 3 GET requests; a
\* request answered 200 is the last one and its payload is what the call
\* returns; the call returns None exactly when it made 3 requests and none was
\* answered 200.
C5_AtMostThreeRequests ==
    /\ Cardinality(GetIdx) <= MaxAttempts
    /\ \A i \in GetIdx :
         trace[i].status = 200 =>
            /\ i = Len(trace)
            /\ pc # "get"
            /\ data = trace[i].body
    /\ pc = "handle" =>
         /\ data = results[Len(results)].data
         /\ data = NoData <=>
              (Cardinality(GetIdx) = MaxAttempts /\ \A i \in GetIdx : trace[i].status # 200)

\* C5 witness: two failed attempts and a third one answered 200 with data.
C5_Witness ==
    /\ pc = "handle"
    /\ Cardinality(GetIdx) = MaxAttempts
    /\ trace[Len(trace)].op = "GET"
    /\ trace[Len(trace)].status = 200
    /\ data \in DataPayloads

\* C6 as claimed: every document request is sent with a token that is not
\* expired with respect to the stored expiry: current time <= stored expiry.
C6_TokenNotExpiredWhenSent ==
    \A i \in GetIdx : trace[i].at <= trace[i].expires_at

\* The constructor of the client has just returned or raised.
AfterConstruct == (pc = "type" /\ ti = 1) \/ (pc = "finished" /\ ~plenty)
\* The cache found at construction is well-formed and its expiry is past.
ExpiredCache0 == LoadTokenOk(cache0) /\ SessionExpired(0, cache0.token.expires_at)

\* C7 as claimed: with a well-formed, expired cached session the bootstrap
\* makes exactly one refresh attempt; if it fails exactly one login follows,
\* and if it succeeds no login is made.
C7_ExpiredCacheOneRefresh ==
    (AfterConstruct /\ ExpiredCache0) =>
        /\ Len(trace) >= 1
        /\ trace[1].op = "refresh"
        /\ IF trace[1].result = "ok" THEN Len(trace) = 1
           ELSE Len(trace) = 2 /\ trace[2].op = "login"

\* C8: when the cache is missing, cannot be unpickled or lacks one of the
\* three fields, bootstrap makes exactly one login and no refresh, and the
\* session holds nothing of the cache: the fields of the login's answer if it
\* succeeded, nothing otherwise.
C8_NoCacheOneLogin ==
    (AfterConstruct /\ ~LoadTokenOk(cache0)) =>
        /\ Len(trace) = 1
        /\ trace[1].op = "login"
        /\ plenty <=> trace[1].result = "ok"
        /\ IF plenty
           THEN \E t \in TokenResponses :
                   /\ py_api_token = t.access_token
                   /\ py_api_refresh_token = t.refresh_token
                   /\ py_api_token_expires_at = ExpiresAt(0, t.expiresIn)
           ELSE /\ py_api_token = None
                /\ py_api_refresh_token = None
                /\ py_api_token_expires_at = None

\* C8 witness: a cache that lacks the expiry, and a client constructed by a
\* login.
C8_Witness ==
    /\ AfterConstruct
    /\ plenty
    /\ cache0.state = "ok"
    /\ "expires_at" \notin DOMAIN cache0.token
    /\ py_api_token = "a1"

\* C9 as claimed: after a rejected login no document request is issued any
\* more, and the rejection is a log line with the server's error text.
C9_RejectedLoginIsFatal ==
    \A i \in 1..Len(trace) :
        (trace[i].op = "login" /\ trace[i].result = "rejected") =>
            /\ \A j \in (i + 1)..Len(trace) : trace[j].op # "GET"
            /\ pc # "get"
            /\ \E l \in 1..Len(log) : log[l].msg = <<"Login failed!", "invalid_credentials">>

\* C10: no exception leaves run: a failed construction is the single log line
\* of the run, a failed archive check and a failed file write are logged as an
\* abort of their type and page.
C10_NoExceptionEscapes ==
    /\ ~escaped
    /\ pc \in {"start", "type", "get", "handle", "finished"}
    /\ (pc = "finished" /\ ~plenty) =>
          Len(log) = 1 /\ log[1].ev = "connect_failed"
    /\ \A j \in 1..Len(results) :
          (results[j].data = UnsupportedZip /\ ~(pc = "handle" /\ j = Len(results))) =>
             \E l \in 1..Len(log) :
                log[l] = LogEv("abort", results[j].type, results[j].page, <<>>)
    /\ \A f \in DOMAIN files :
          files[f] = PartialFile =>
             \E l \in 1..Len(log) : log[l] = LogEv("abort", f[2], f[3], <<>>)

\* C10 witness: the write of the first page failed half way, the abort was
\* logged and the run ended.
C10_Witness ==
    /\ pc = "finished"
    /\ plenty
    /\ FileName(filename_prefix, "invoice", 1) \in DOMAIN files
    /\ files[FileName(filename_prefix, "invoice", 1)] = PartialFile
    /\ ~escaped

\* The log holds an event ev of the i-th selected type.
Logged(ev, i) == \E l \in 1..Len(log) : log[l].ev = ev /\ log[l].doc_type = types[i]
CountLogged(ev, i) ==
    Cardinality({ l \in 1..Len(log) : log[l].ev = ev /\ log[l].doc_type = types[i] })
\* The loop of the i-th selected type has been entered.
Entered(i) == ti > i \/ (ti = i /\ pc \in {"get", "handle"})

Step429 ==
    /\ pc = "get"
    /\ Len(trace') > Len(trace)
    /\ trace'[Len(trace) + 1].op = "GET"
    /\ trace'[Len(trace) + 1].status = 429
\* The step waits the current delay and makes no credential exchange: the
\* session in memory and the cache file are as before.
WaitsWithoutReauth ==
    /\ Len(trace') = Len(trace) + 2
    /\ trace'[Len(trace')] = SleepEv(delay)
    /\ now' = now + delay
    /\ UNCHANGED <<py_api_token, py_api_refresh_token, py_api_token_expires_at, cache>>

\* C12 as claimed: a 429 leads to a wait and a retry of the same call, with no
\* refresh and no login, and leaves session and cache unchanged.
C12_429WaitsAndRetries ==
    [][Step429 => (WaitsWithoutReauth /\ pc' = "get" /\ req' = req)]_vars

\* C12 as amended: a 429 leads to a wait of the current delay with no refresh
\* and no login, and leaves session and cache unchanged; the same call is
\* retried if the 429 answered the first or second attempt, and after a 429 on
\* the third attempt the call returns None without a retry.
C12_429WaitsWithoutReauth ==
    [][Step429 =>
         /\ WaitsWithoutReauth
         /\ IF attempt + 1 < MaxAttempts
            THEN pc' = "get" /\ req' = req /\ attempt' = attempt + 1
            ELSE pc' = "handle" /\ data' = NoData]_vars

\* C12 witness: a 429, a wait of 5, and the same request sent again with the
\* same token and answered.
C12_Witness ==
    /\ Len(trace) = 3
    /\ trace[1].op = "GET" /\ trace[1].status = 429
    /\ trace[2] = SleepEv(5)
    /\ trace[3].op = "GET" /\ trace[3].status = 200
    /\ trace[3].req = trace[1].req
    /\ trace[3].token = trace[1].token

\* C13: the refresh operation never raises and reports every failure as False,
\* so every refresh that did not succeed (rejected by the server, or the POST
\* or the decoding of its response failed) is followed by the fallback login.
C13_FailedRefreshThenLogin ==
    \A i \in 1..Len(trace) :
        (trace[i].op = "refresh" /\ trace[i].result # "ok") =>
            /\ i + 1 <= Len(trace)
            /\ trace[i + 1].op = "login"

\* The requests that failed without a 401 or 429: a status other than 200, or
\* no response because the request raised.
IdxFailed == { i \in GetIdx : trace[i].status \in OtherStatuses \cup {NoResponse} }

\* C20: a network exception or a status other than 200, 401 and 429 in the GET
\* primitive does not reach the caller: the attempt is counted, the same call
\* is sent again while attempts remain, and after the third attempt the call
\* returns None to the worker.
C20_FailureStaysInGet ==
    \A i \in IdxFailed :
        IF i < Len(trace)
        THEN /\ AttemptNo(i) < MaxAttempts
             /\ trace[i + 1].op = "GET"
             /\ trace[i + 1].req = trace[i].req
        ELSE IF AttemptNo(i) < MaxAttempts
        THEN /\ pc = "get"
             /\ req = trace[i].req
             /\ attempt = AttemptNo(i)
        ELSE /\ pc # "get"
             /\ results # <<>>
             /\ results[Len(results)] = [type |-> trace[i].req.type,
                                         page |-> trace[i].req.page,
                                         data |-> NoData]

\* C20 witness: the request raised, was sent again and answered 500, was sent
\* a third time and answered with documents.
C20_Witness ==
    /\ pc = "handle"
    /\ Len(trace) = 3
    /\ trace[1].op = "GET" /\ trace[1].status = NoResponse
    /\ trace[2].op = "GET" /\ trace[2].status \in OtherStatuses
    /\ trace[3].op = "GET" /\ trace[3].status = 200
    /\ trace[2].req = trace[1].req /\ trace[3].req = trace[1].req
    /\ data \in DataPayloads

\* C16: when the call for a page of type T returns None after its three
\* attempts, no file is written for that page, T gets the "done" event and no
\* abort event, no further page of T is requested, and every selected type
\* after T is still started and fetched from page 1.
C16_NoResultEndsTypeAsDone ==
    \A j \in 1..Len(results) : \A i \in 1..Len(types) :
        (results[j].data = NoData /\ results[j].type = types[i]) =>
            /\ FileName(filename_prefix, types[i], results[j].page) \notin DOMAIN files
            /\ \A k \in (j + 1)..Len(results) : results[k].type # types[i]
            /\ ~Logged("abort", i)
            /\ IF j = Len(results) /\ pc = "handle"
               THEN ti = i /\ ~Logged("done", i)
               ELSE /\ ti > i
                    /\ TypeLog(types[i])[Len(TypeLog(types[i]))] =
                          LogEv("done", types[i], results[j].page, <<>>)
                    /\ CountLogged("done", i) = 1
                    /\ pc \in {"get", "handle"} => req.type # types[i]
                    /\ \A n \in (i + 1)..Len(types) :
                          /\ pc = "finished" => Entered(n)
                          /\ Entered(n) =>
                                /\ CountLogged("started", n) = 1
                                /\ IF TypeResults(types[n]) # <<>>
                                   THEN TypeResults(types[n])[1].page = 1
                                   ELSE req.type = types[n] /\ req.page = 1

\* C16 witness: page 1 of the first type was stored, the call for page 2 used
\* up its attempts, and the second type was then fetched and stored.
C16_Witness ==
    /\ pc = "finished"
    /\ Len(TypeResults(types[1])) = 2
    /\ TypeResults(types[1])[2].data = NoData
    /\ TypeFiles(types[1]) = {FileName(filename_prefix, types[1], 1)}
    /\ Logged("done", 1)
    /\ FileName(filename_prefix, types[2], 1) \in DOMAIN files
    /\ files[FileName(filename_prefix, types[2], 1)] \in DataPayloads
    /\ Logged("done", 2)

\* The position of the type T in the selection.
TypeIdx(T) == CHOOSE i \in 1..Len(types) : types[i] = T
\* The i-th selected type has its terminal event among the first l log events.
TerminalWithin(i, l) ==
    \E k \in 1..l : log[k].doc_type = types[i] /\ log[k].ev \in {"done", "abort"}

\* C18: within one run the types are processed one after the other in
\* selection order: a request is only ever for the type the loop is at, every
\* earlier type has emitted its terminal event before anything of a later type
\* is requested or logged, and the requests of the call in progress are all
\* for the one page the worker is waiting for.
C18_TypesInSelectionOrder ==
    /\ pc \in {"get", "handle"} =>
         /\ req.type = types[ti]
         /\ \A i \in 1..(ti - 1) : TerminalWithin(i, Len(log))
         /\ \A g \in GetIdx : trace[g].req = req
    /\ \A l \in 1..Len(log) : \A n \in 1..Len(types) :
         log[l].doc_type = types[n] =>
            \A i \in 1..(n - 1) : TerminalWithin(i, l - 1)
    /\ \A j \in 1..Len(results) :
         /\ results[j].type \in { types[i] : i \in 1..Len(types) }
         /\ \A i \in 1..(TypeIdx(results[j].type) - 1) : TerminalWithin(i, Len(log))
         /\ \A k \in (j + 1)..Len(results) :
              TypeIdx(results[j].type) <= TypeIdx(results[k].type)

\* C18 witness: the first type was fetched over two pages and ended, then the
\* second type was fetched and aborted.
C18_Witness ==
    /\ pc = "finished"
    /\ Len(TypeResults(types[1])) >= 2
    /\ Logged("done", 1)
    /\ Len(TypeResults(types[2])) >= 1
    /\ Logged("abort", 2)

\* The i-th selected type has emitted its terminal event.
Terminal(i) == Logged("done", i) \/ Logged("abort", i)

\* C17 as claimed: the run eventually ends with every selected type at its
\* terminal event (done or abort).
C17_EveryTypeTerminates ==
    <>(pc = "finished" /\ \A i \in 1..Len(types) : Terminal(i))

\* C17 as amended: the run eventually ends; if the client was constructed,
\* every selected type has reached its terminal event by then, and if the
\* construction failed, the run ended with the one error line and without
\* starting any type.
C17_RunEnds ==
    <>(/\ pc = "finished"
       /\ IF plenty
          THEN \A i \in 1..Len(types) : Terminal(i)
          ELSE /\ Len(log) = 1 /\ log[1].ev = "connect_failed"
               /\ results = <<>>)

\* C17 witness: a run that had to log in first, lost its first type to an
\* abort, finished the second type and ended.
C17_Witness ==
    /\ pc = "finished"
    /\ plenty
    /\ cache0 = NoFile
    /\ Logged("abort", 1)
    /\ Logged("done", 2)

\* The session the client holds in memory.
Session ==
    [access_token |-> py_api_token, refresh_token |-> py_api_refresh_token,
     expires_at |-> py_api_token_expires_at]

\* C14: whenever the client holds a session and no credential exchange is in
\* progress, the cache file holds exactly that session: its access token,
\* refresh token and expiry.
C14_CacheAgreesWithSession ==
    plenty => (cache.state = "ok" /\ cache.token = Session)

\* C15: when the process dies during a cache write, the cache file afterwards
\* holds the complete previous content or the complete new session.
C15_CacheWriteAtomic ==
    [][pc' = "killed" =>
         \/ cache' = cache
         \/ (LoadTokenOk(cache') /\ cache'.token = Session')]_vars

\* C19: a client is never constructed with an empty or absent username or
\* password, and no login request is sent with one.
C19_EmptyCredentialsRejected ==
    (credentials.username \in EmptyValues \/ credentials.password \in EmptyValues) =>
        /\ ~plenty
        /\ \A i \in 1..Len(trace) : trace[i].op # "login"

\* The worker has dealt with the j-th returned payload.
Handled(j) == ~(pc = "handle" /\ j = Len(results))
\* The payload parses as an archive with at least one entry.
ArchiveWithEntries(d) == d.kind = "zip" /\ d.entries >= 1
\* The log holds the event ev of the page of the j-th returned payload.
PageLogged(ev, j) ==
    \E l \in 1..Len(log) : log[l] = LogEv(ev, results[j].type, results[j].page, <<>>)

\* C21: a payload is classified as data exactly when it parses as an archive
\* with at least one entry: then the page is written and logged as a batch, or
\* the write itself fails. Every other payload (None, empty bytes, bytes that
\* cannot be opened as an archive, an archive without entries) is classified
\* as empty: no file is written, the type gets its "done" event at that page
\* and no further page of the type is requested.
C21_PayloadClassification ==
    \A j \in 1..Len(results) :
        Handled(j) =>
            IF ArchiveWithEntries(results[j].data)
            THEN /\ ~PageLogged("done", j)
                 /\ PageLogged("batch", j) \/ PageLogged("abort", j)
            ELSE /\ PageLogged("done", j)
                 /\ ~PageLogged("batch", j)
                 /\ FileName(filename_prefix, results[j].type, results[j].page)
                       \notin DOMAIN files
                 /\ \A k \in (j + 1)..Len(results) : results[k].type # results[j].type

\* The 401 at position i was followed by a wait and a re-authentication that
\* succeeded, by the refresh or by the fallback login.
ReauthSucceeded(i) ==
    /\ i + 2 <= Len(trace)
    /\ trace[i + 1].op = "sleep"
    /\ trace[i + 2].op = "refresh"
    /\ ReauthEnd(i) <= Len(trace)
    /\ trace[ReauthEnd(i)].op \in {"refresh", "login"}
    /\ trace[ReauthEnd(i)].result = "ok"
\* tok and exp are the access token and the expiry of a session issued by the
\* exchange that followed the 401 at position i.
IssuedAfter(i, tok, exp) ==
    \E o \in TokenResponses :
        /\ tok = o.access_token
        /\ exp = ExpiresAt(trace[i].at + trace[i + 1].secs, o.expiresIn)

\* C22: after a 401 whose re-authentication succeeded, the next attempt of the
\* same call is sent with the session that the exchange just issued, not with
\* the session that was rejected.
C22_RetryCarriesNewToken ==
    \A i \in Idx401 :
        ReauthSucceeded(i) =>
            IF ReauthEnd(i) < Len(trace)
            THEN /\ trace[ReauthEnd(i) + 1].op = "GET"
                 /\ trace[ReauthEnd(i) + 1].req = trace[i].req
                 /\ IssuedAfter(i, trace[ReauthEnd(i) + 1].token,
                                trace[ReauthEnd(i) + 1].expires_at)
                 /\ <<trace[ReauthEnd(i) + 1].token, trace[ReauthEnd(i) + 1].expires_at>>
                       # <<trace[i].token, trace[i].expires_at>>
            ELSE /\ IssuedAfter(i, py_api_token, py_api_token_expires_at)
                 /\ <<py_api_token, py_api_token_expires_at>>
                       # <<trace[i].token, trace[i].expires_at>>

\* C22 witness: a 401, a successful refresh, and a second 401 for the same
\* request, which was sent with another access token than the first.
C22_Witness ==
    /\ Len(trace) >= 4
    /\ trace[1].op = "GET" /\ trace[1].status = 401
    /\ trace[3] = RefreshEv("ok")
    /\ trace[4].op = "GET" /\ trace[4].status = 401
    /\ trace[4].req = trace[1].req
    /\ trace[4].token # trace[1].token

\* The cache found at construction is well-formed and its expiry is not
\* before the time of construction.
FreshCache0 == LoadTokenOk(cache0) /\ cache0.token.expires_at >= 0

\* C23: a client constructed with a well-formed cached session whose expiry
\* is not in the past makes no login and no refresh, holds exactly the three
\* cached fields as its session, and leaves the cache file as it was.
C23_FreshCacheAdopted ==
    (AfterConstruct /\ FreshCache0) =>
        /\ plenty
        /\ pc = "type"
        /\ trace = <<>>
        /\ Session = cache0.token
        /\ cache = cache0

\* C23 witness: a client constructed from a cached session that expires at
\* the very time of construction.
C23_Witness ==
    /\ AfterConstruct
    /\ plenty
    /\ LoadTokenOk(cache0)
    /\ cache0.token.expires_at = 0
    /\ trace = <<>>
    /\ py_api_token = "a0"
    /\ cache = cache0

====
